---- MODULE Spec2Model ----
(***************************************************************************)
(* Model of the useDebate hook (frontend/src/hooks/useDebate.ts): the      *)
(* controller startDebate / reset and the per-event handlers of the read   *)
(* loop that rebuild the debate transcript from the streamed events.       *)
(*                                                                         *)
(* Optional fields of the TypeScript interfaces are modelled as sets of    *)
(* at most one element: {} is "absent / undefined", {v} is the value v.    *)
(***************************************************************************)
EXTENDS Integers, Sequences, FiniteSets, TLC

VARIABLES
    state,              \* useState<DebateState>: status, messages, symbol, query, summary fields
    currentAgent,       \* useState: "bull" | "bear" | "referee" | "null"
    streamingRef,       \* useRef<StreamingState>: the three text buffers and currentRound
    abortControllerRef, \* useRef<AbortController | null>: 0 is null, g > 0 the controller of call g
    loops,              \* loops[g]: where the g-th invocation of startDebate stands
    nFrames,            \* number of frames processed so far (bounds the exploration)
    vocabulary,         \* the name of the vocabulary of this run
    requests,           \* requests[g]: number of fetch calls the g-th invocation has issued
    chunks,             \* history: the chunks reader.read() has returned, each the sequence
                        \* of its characters (frame decoder) or of its events (batching)
    buffer,             \* let buffer: the undelimited tail the frame decoder carries
    emitted,            \* history: the lines the for loop of the decoder has visited
    closed,             \* the decoder's reader.read() has reported done
    pending,            \* the updaters queued by setState and not yet run by React
    delivered,          \* history: per speaker, the <<round, token>> of the token events applied
                        \* since that speaker's last complete event (or the session's start)
    last                \* the operation that produced this state, and the event it applied

vars == <<state, currentAgent, streamingRef, abortControllerRef, loops, nFrames,
          vocabulary, requests, chunks, buffer, emitted, closed, pending,
          delivered, last>>

----------------------------------------------------------------------------
(* Bounds of the exploration.                                              *)

MaxStarts == 2
MaxFrames == 3
MaxText == 6

Gens == 1..MaxStarts

----------------------------------------------------------------------------
(* JavaScript values.                                                      *)

Some(o) == CHOOSE v \in o : TRUE

\* !x is false: a number that is present and not 0
TruthyNum(o) == o # {} /\ o # {0}

\* a string that is present and not ''
TruthyStr(o) == o # {} /\ o # {""}

\* mutant of OrStr: an absent value gives '' instead of the fallback
OrStrNoFallback(o, dflt) == IF TruthyStr(o) THEN Some(o) ELSE ""

\* data.token || '' , data.content || buffer
OrStr(o, dflt) == IF TruthyStr(o) THEN Some(o) ELSE dflt

\* data.round || streamingRef.current.currentRound
OrNum(o, dflt) == IF TruthyNum(o) THEN Some(o) ELSE dflt

----------------------------------------------------------------------------
(* AgentMessage (types): every field but type is optional.                 *)

AgentMessage ==
    [type |-> "", content |-> {}, token |-> {}, confidence |-> {}, key_points |-> {},
     round |-> {}, winner |-> {}, confidence_score |-> {}, wager_amount |-> {},
     key_factors |-> {}, hcs_tx |-> {}, wager_tx |-> {}, data |-> {}, status |-> {},
     node |-> {}]

\* useState<DebateState> initial value, and the object reset() installs
IdleState ==
    [status |-> "idle", messages |-> <<>>, symbol |-> "HBAR", query |-> "",
     winner |-> {}, confidence_score |-> {}, wager_amount |-> {}, hcs_tx |-> {}, wager_tx |-> {}]

\* the object startDebate installs
LoadingState(query, symbol) ==
    [status |-> "loading", messages |-> <<>>, symbol |-> symbol, query |-> query,
     winner |-> {}, confidence_score |-> {}, wager_amount |-> {}, hcs_tx |-> {}, wager_tx |-> {}]

\* the StreamingState both startDebate and reset install
FreshStreaming ==
    [bullContent |-> "", bearContent |-> "", refereeContent |-> "",
     currentAgent |-> "null", currentRound |-> 1]

----------------------------------------------------------------------------
(* The events the backend may stream: the AgentMessage objects decoded     *)
(* from the frames.  A run draws its events from one vocabulary, a small   *)
(* set of events chosen at the start; the vocabularies together cover the  *)
(* event kinds and, for the optional fields the handlers read, a present   *)
(* truthy value, a present falsy value (confidence 0) and absence.         *)

\* {type: 'bull_token' | 'bear_token' | 'referee_token', token, round?}
Tok(type, token, round) ==
    [AgentMessage EXCEPT !.type = type, !.token = {token}, !.round = round]

\* {type: 'bull_complete' | 'bear_complete', content?, confidence?, key_points, round?}
Cmp(type, content, confidence, round) ==
    [AgentMessage EXCEPT !.type = type, !.content = content, !.confidence = confidence,
                         !.key_points = {<<"x">>}, !.round = round]

\* {type: 'referee_complete', content?, winner?, confidence_score, wager_amount, key_factors}
Ref(content, winner) ==
    [AgentMessage EXCEPT !.type = "referee_complete", !.content = content,
                         !.winner = winner, !.confidence_score = {70},
                         !.wager_amount = {5}, !.key_factors = {<<"y">>}]

Status(status) == [AgentMessage EXCEPT !.type = "status", !.status = {status}]

DoneEv == [AgentMessage EXCEPT !.type = "done"]
ErrorEv == [AgentMessage EXCEPT !.type = "error", !.content = {"boom"}]
SystemEv == [AgentMessage EXCEPT !.type = "system", !.content = {"sys"}]
HederaEv == [AgentMessage EXCEPT !.type = "hedera", !.hcs_tx = {"hcs1"}, !.wager_tx = {"wager1"}]

\* the event with the name of the backend node that produced it
WithNode(data, node) == [data EXCEPT !.node = {node}]

\* an event of a type no branch of the dispatch handles
UnknownEv == [AgentMessage EXCEPT !.type = "ping", !.content = {"x"}]

\* one debater over two rounds, the round given by the event or not
RoundsVocabulary(me) ==
    {Tok(me \o "_token", "a", {}), Tok(me \o "_token", "b", {}),
     Tok(me \o "_token", "b", {2}),
     Cmp(me \o "_complete", {}, {80}, {}), Cmp(me \o "_complete", {"c"}, {80}, {2})}

\* one debater whose confidence is truthy, 0 or absent; the other debater
\* only closes the round, which its event names
ConfidenceVocabulary(me, other) ==
    {Tok(me \o "_token", "a", {}),
     Cmp(me \o "_complete", {}, {80}, {}), Cmp(me \o "_complete", {}, {0}, {}),
     Cmp(me \o "_complete", {}, {}, {}), Cmp(other \o "_complete", {}, {80}, {2})}

\* the referee and its verdicts: with and without content, with and without
\* a winner
RefereeVocabulary ==
    {Tok("referee_token", "a", {}), Tok("referee_token", "b", {}),
     Ref({}, {"Bull"}), Ref({}, {}), Ref({"c"}, {"Bear"})}

\* what follows the verdict
SettlementVocabulary ==
    {Tok("referee_token", "a", {}), Ref({}, {"Bull"}),
     HederaEv, DoneEv, Status("referee_evaluating")}

\* the status events that name a speaker, around a debater's turn
StatusVocabulary ==
    {Status("bull_analyzing"), Status("bear_analyzing"),
     Tok("bull_token", "a", {}), Cmp("bull_complete", {}, {80}, {}), DoneEv}

ControlVocabulary ==
    {SystemEv, ErrorEv, DoneEv, HederaEv}

\* the three speakers side by side
SpeakersVocabulary ==
    {Tok("bull_token", "a", {}), Tok("bear_token", "b", {}), Tok("referee_token", "a", {}),
     Cmp("bear_complete", {}, {80}, {})}

MixedVocabulary ==
    {Tok("bull_token", "a", {}), Tok("bear_token", "b", {}),
     Ref({}, {"Bull"}), DoneEv, ErrorEv}

\* events at the edges of the schema: a content that is the empty string, a
\* type the dispatch does not know, a status that names no speaker
EdgeVocabulary ==
    {Tok("bull_token", "a", {}), Cmp("bull_complete", {""}, {80}, {}),
     UnknownEv, Status("thinking")}

\* events that carry the field node: the three kinds that are stored as they
\* come
NodeVocabulary ==
    {WithNode(SystemEv, "market_data"), WithNode(ErrorEv, "bull"),
     WithNode(HederaEv, "hedera")}

\* A frame is the text between two blank lines.  prefix: the line starts
\* with 'data: '; json: what JSON.parse makes of the rest, {} when it throws.
DataFrame(data) == [prefix |-> TRUE, json |-> {data}]

\* {"type":"done"} written without the 'data: ' prefix
NoPrefixFrame == [prefix |-> FALSE, json |-> {DoneEv}]

\* 'data: ' followed by text that is not JSON
BadJsonFrame == [prefix |-> TRUE, json |-> {}]

FramingVocabulary ==
    {NoPrefixFrame, BadJsonFrame, DataFrame(Tok("bull_token", "a", {})),
     DataFrame(Tok("bull_token", "b", {})), DataFrame(Cmp("bull_complete", {}, {80}, {})),
     DataFrame(DoneEv)}

DataFrames(events) == {DataFrame(data) : data \in events}

\* the frames of each vocabulary; a run holds the name of its vocabulary
VocabularyFrames ==
    [rounds |-> DataFrames(RoundsVocabulary("bull")),
     confidence |-> DataFrames(ConfidenceVocabulary("bull", "bear")),
     speakers |-> DataFrames(SpeakersVocabulary),
     referee |-> DataFrames(RefereeVocabulary),
     settlement |-> DataFrames(SettlementVocabulary),
     status |-> DataFrames(StatusVocabulary),
     control |-> DataFrames(ControlVocabulary),
     mixed |-> DataFrames(MixedVocabulary),
     edge |-> DataFrames(EdgeVocabulary),
     node |-> DataFrames(NodeVocabulary),
     framing |-> FramingVocabulary]

Vocabularies == DOMAIN VocabularyFrames

\* the frames the backend may stream in this run
Lines == VocabularyFrames[vocabulary]

\* the arguments of the g-th call of startDebate(query, symbol).  The hook
\* stores them and never reads them back; successive calls are given different
\* arguments, so that what a call stores can be told from what the call before
\* it stored.
Request(g) == IF g % 2 = 1 THEN <<"q1", "HBAR">> ELSE <<"q2", "BTC">>

\* the messages of the errors that reach the catch block: the one thrown at
\* line 71 for a response that is not ok, the one thrown at line 76 for a
\* response without a body, and a rejection of fetch or reader.read() whose
\* message is empty
TransportErrors == {"HTTP error! status: 500", "No response body", ""}

\* the messages of the errors reader.read() rejects with: a text, and none
ReadErrors == {"network error", ""}

----------------------------------------------------------------------------
(* Array helpers.                                                          *)

\* Array.prototype.findIndex: the first of the indices whose element satisfies
\* the predicate (hits); indices are 1-based and 0 stands for JavaScript's -1
findIndex(hits) ==
    IF hits = {} THEN 0 ELSE CHOOSE i \in hits : \A j \in hits : i <= j

\* mutant of OpenDebater: the negation of m.confidence is dropped
OpenDebaterNotNegated(m, type, round) ==
    m.type = type /\ m.round = {round} /\ TruthyNum(m.confidence)

\* m.type === 'bull' && m.round === round && !m.confidence  (and the same for 'bear')
OpenDebater(m, type, round) ==
    m.type = type /\ m.round = {round} /\ ~TruthyNum(m.confidence)

\* m.type === 'referee' && !m.winner
OpenReferee(m) ==
    m.type = "referee" /\ ~TruthyStr(m.winner)

\* mutant of PutContent: the accumulated text is added to the message's text
\* instead of replacing it
PutContentAccumulates(ms, idx, content, fresh) ==
    IF idx > 0 THEN [ms EXCEPT ![idx] = [@ EXCEPT !.content = {Some(@) \o content}]]
    ELSE Append(ms, fresh)

\* mutant of PutContent: the updated message is moved to the end of the list
PutContentMovesToEnd(ms, idx, content, fresh) ==
    IF idx > 0
    THEN Append(SubSeq(ms, 1, idx - 1) \o SubSeq(ms, idx + 1, Len(ms)),
                [ms[idx] EXCEPT !.content = {content}])
    ELSE Append(ms, fresh)

\* if (existingIdx >= 0) newMessages[existingIdx] = {...newMessages[existingIdx], content}
\* else newMessages.push(fresh)
PutContent(ms, idx, content, fresh) ==
    IF idx > 0 THEN [ms EXCEPT ![idx] = [@ EXCEPT !.content = {content}]]
    ELSE Append(ms, fresh)

\* mutant of PutComplete: the complete message is always pushed
PutCompleteAlwaysPushes(ms, idx, completeMessage) ==
    Append(ms, completeMessage)

\* if (existingIdx >= 0) newMessages[existingIdx] = completeMessage
\* else newMessages.push(completeMessage)
PutComplete(ms, idx, completeMessage) ==
    IF idx > 0 THEN [ms EXCEPT ![idx] = completeMessage]
    ELSE Append(ms, completeMessage)

----------------------------------------------------------------------------
(* The handlers of the read loop, one per branch of the if / else-if chain *)
(* on data.type. Each gives the next state, streamingRef and currentAgent. *)

BullToken(data) ==
    LET currentContent == streamingRef.bullContent \o OrStr(data.token, "")
        round == OrNum(data.round, streamingRef.currentRound)
        existingIdx == findIndex({i \in DOMAIN state.messages :
                                      OpenDebater(state.messages[i], "bull", round)})
    IN /\ streamingRef' = [streamingRef EXCEPT !.bullContent = currentContent]
       /\ currentAgent' = "bull"
       /\ state' = [state EXCEPT !.messages =
                        PutContent(@, existingIdx, currentContent,
                                   [AgentMessage EXCEPT !.type = "bull",
                                        !.content = {currentContent}, !.round = {round}])]

\* mutant of BearToken: the token is accumulated in the buffer of bull
BearTokenInBullBuffer(data) ==
    LET currentContent == streamingRef.bullContent \o OrStr(data.token, "")
        round == OrNum(data.round, streamingRef.currentRound)
        existingIdx == findIndex({i \in DOMAIN state.messages :
                                      OpenDebater(state.messages[i], "bear", round)})
    IN /\ streamingRef' = [streamingRef EXCEPT !.bullContent = currentContent]
       /\ currentAgent' = "bear"
       /\ state' = [state EXCEPT !.messages =
                        PutContent(@, existingIdx, currentContent,
                                   [AgentMessage EXCEPT !.type = "bear",
                                        !.content = {currentContent}, !.round = {round}])]

BearToken(data) ==
    LET currentContent == streamingRef.bearContent \o OrStr(data.token, "")
        round == OrNum(data.round, streamingRef.currentRound)
        existingIdx == findIndex({i \in DOMAIN state.messages :
                                      OpenDebater(state.messages[i], "bear", round)})
    IN /\ streamingRef' = [streamingRef EXCEPT !.bearContent = currentContent]
       /\ currentAgent' = "bear"
       /\ state' = [state EXCEPT !.messages =
                        PutContent(@, existingIdx, currentContent,
                                   [AgentMessage EXCEPT !.type = "bear",
                                        !.content = {currentContent}, !.round = {round}])]

RefereeToken(data) ==
    LET currentContent == streamingRef.refereeContent \o OrStr(data.token, "")
        existingIdx == findIndex({i \in DOMAIN state.messages : OpenReferee(state.messages[i])})
    IN /\ streamingRef' = [streamingRef EXCEPT !.refereeContent = currentContent]
       /\ currentAgent' = "referee"
       /\ state' = [state EXCEPT !.messages =
                        PutContent(@, existingIdx, currentContent,
                                   [AgentMessage EXCEPT !.type = "referee",
                                        !.content = {currentContent}])]

\* mutant of BullComplete: the bull text buffer is not cleared
BullCompleteKeepsBuffer(data) ==
    LET finalContent == OrStr(data.content, streamingRef.bullContent)
        round == OrNum(data.round, streamingRef.currentRound)
        existingIdx == findIndex({i \in DOMAIN state.messages :
                                      OpenDebater(state.messages[i], "bull", round)})
        completeMessage == [AgentMessage EXCEPT !.type = "bull", !.content = {finalContent},
                                !.confidence = data.confidence,
                                !.key_points = data.key_points, !.round = {round}]
    IN /\ UNCHANGED streamingRef
       /\ currentAgent' = "null"
       /\ state' = [state EXCEPT !.messages = PutComplete(@, existingIdx, completeMessage)]

BullComplete(data) ==
    LET finalContent == OrStr(data.content, streamingRef.bullContent)
        round == OrNum(data.round, streamingRef.currentRound)
        existingIdx == findIndex({i \in DOMAIN state.messages :
                                      OpenDebater(state.messages[i], "bull", round)})
        completeMessage == [AgentMessage EXCEPT !.type = "bull", !.content = {finalContent},
                                !.confidence = data.confidence,
                                !.key_points = data.key_points, !.round = {round}]
    IN /\ streamingRef' = [streamingRef EXCEPT !.bullContent = ""]
       /\ currentAgent' = "null"
       /\ state' = [state EXCEPT !.messages = PutComplete(@, existingIdx, completeMessage)]

\* mutant of BearComplete: the round counter is set to the round after the
\* event's round instead of being incremented
BearCompleteSetsRound(data) ==
    LET finalContent == OrStr(data.content, streamingRef.bearContent)
        round == OrNum(data.round, streamingRef.currentRound)
        existingIdx == findIndex({i \in DOMAIN state.messages :
                                      OpenDebater(state.messages[i], "bear", round)})
        completeMessage == [AgentMessage EXCEPT !.type = "bear", !.content = {finalContent},
                                !.confidence = data.confidence,
                                !.key_points = data.key_points, !.round = {round}]
    IN /\ streamingRef' = [streamingRef EXCEPT !.bearContent = "",
                                               !.currentRound = round + 1]
       /\ currentAgent' = "null"
       /\ state' = [state EXCEPT !.messages = PutComplete(@, existingIdx, completeMessage)]

BearComplete(data) ==
    LET finalContent == OrStr(data.content, streamingRef.bearContent)
        round == OrNum(data.round, streamingRef.currentRound)
        existingIdx == findIndex({i \in DOMAIN state.messages :
                                      OpenDebater(state.messages[i], "bear", round)})
        completeMessage == [AgentMessage EXCEPT !.type = "bear", !.content = {finalContent},
                                !.confidence = data.confidence,
                                !.key_points = data.key_points, !.round = {round}]
    IN /\ streamingRef' = [streamingRef EXCEPT !.bearContent = "",
                                               !.currentRound = @ + 1]
       /\ currentAgent' = "null"
       /\ state' = [state EXCEPT !.messages = PutComplete(@, existingIdx, completeMessage)]

\* mutant of RefereeComplete: the verdict is written to the message only
RefereeCompleteWithoutSummary(data) ==
    LET finalContent == OrStr(data.content, streamingRef.refereeContent)
        existingIdx == findIndex({i \in DOMAIN state.messages : OpenReferee(state.messages[i])})
        completeMessage == [AgentMessage EXCEPT !.type = "referee", !.content = {finalContent},
                                !.winner = data.winner,
                                !.confidence_score = data.confidence_score,
                                !.wager_amount = data.wager_amount,
                                !.key_factors = data.key_factors]
    IN /\ streamingRef' = [streamingRef EXCEPT !.refereeContent = ""]
       /\ currentAgent' = "null"
       /\ state' = [state EXCEPT !.messages = PutComplete(@, existingIdx, completeMessage)]

RefereeComplete(data) ==
    LET finalContent == OrStr(data.content, streamingRef.refereeContent)
        existingIdx == findIndex({i \in DOMAIN state.messages : OpenReferee(state.messages[i])})
        completeMessage == [AgentMessage EXCEPT !.type = "referee", !.content = {finalContent},
                                !.winner = data.winner,
                                !.confidence_score = data.confidence_score,
                                !.wager_amount = data.wager_amount,
                                !.key_factors = data.key_factors]
    IN /\ streamingRef' = [streamingRef EXCEPT !.refereeContent = ""]
       /\ currentAgent' = "null"
       /\ state' = [state EXCEPT !.messages = PutComplete(@, existingIdx, completeMessage),
                                 !.winner = data.winner,
                                 !.confidence_score = data.confidence_score,
                                 !.wager_amount = data.wager_amount]

\* mutant of DoneEvent: the current speaker is left as it was
DoneEventKeepsAgent(data) ==
    /\ state' = [state EXCEPT !.status = "completed"]
    /\ UNCHANGED <<streamingRef, currentAgent>>

DoneEvent(data) ==
    /\ currentAgent' = "null"
    /\ state' = [state EXCEPT !.status = "completed"]
    /\ UNCHANGED streamingRef

\* mutant of ErrorEvent: the event sets the status and is not recorded
ErrorEventWithoutMessage(data) ==
    /\ state' = [state EXCEPT !.status = "error"]
    /\ UNCHANGED <<streamingRef, currentAgent>>

ErrorEvent(data) ==
    /\ state' = [state EXCEPT !.status = "error", !.messages = Append(@, data)]
    /\ UNCHANGED <<streamingRef, currentAgent>>

\* mutant of HederaEvent: the event is recorded, the transaction references
\* are not stored
HederaEventWithoutTx(data) ==
    /\ state' = [state EXCEPT !.messages = Append(@, data)]
    /\ UNCHANGED <<streamingRef, currentAgent>>

HederaEvent(data) ==
    /\ state' = [state EXCEPT !.messages = Append(@, data),
                              !.hcs_tx = data.hcs_tx, !.wager_tx = data.wager_tx]
    /\ UNCHANGED <<streamingRef, currentAgent>>

SystemEvent(data) ==
    /\ state' = [state EXCEPT !.messages = Append(@, data)]
    /\ UNCHANGED <<streamingRef, currentAgent>>

\* mutant of StatusEvent: the event is also recorded as a message
StatusEventRecorded(data) ==
    /\ currentAgent' = IF data.status = {"bull_analyzing"} THEN "bull"
                       ELSE IF data.status = {"bear_analyzing"} THEN "bear"
                       ELSE IF data.status = {"referee_evaluating"} THEN "referee"
                       ELSE currentAgent
    /\ state' = [state EXCEPT !.messages = Append(@, data)]
    /\ UNCHANGED streamingRef

\* mutant of StatusEvent: a status that names no speaker clears the current
\* speaker
StatusEventClearsOnUnknown(data) ==
    /\ currentAgent' = IF data.status = {"bull_analyzing"} THEN "bull"
                       ELSE IF data.status = {"bear_analyzing"} THEN "bear"
                       ELSE IF data.status = {"referee_evaluating"} THEN "referee"
                       ELSE "null"
    /\ UNCHANGED <<state, streamingRef>>

StatusEvent(data) ==
    /\ currentAgent' = IF data.status = {"bull_analyzing"} THEN "bull"
                       ELSE IF data.status = {"bear_analyzing"} THEN "bear"
                       ELSE IF data.status = {"referee_evaluating"} THEN "referee"
                       ELSE currentAgent
    /\ UNCHANGED <<state, streamingRef>>

\* the types the if / else-if chain has a branch for
HandledTypes ==
    {"bull_token", "bear_token", "referee_token", "bull_complete", "bear_complete",
     "referee_complete", "done", "error", "hedera", "system", "status"}

\* the if / else-if chain on data.type
HandleEvent(data) ==
    \/ data.type = "bull_token" /\ BullToken(data)
    \/ data.type = "bear_token" /\ BearToken(data)
    \/ data.type = "referee_token" /\ RefereeToken(data)
    \/ data.type = "bull_complete" /\ BullComplete(data)
    \/ data.type = "bear_complete" /\ BearComplete(data)
    \/ data.type = "referee_complete" /\ RefereeComplete(data)
    \/ data.type = "done" /\ DoneEvent(data)
    \/ data.type = "error" /\ ErrorEvent(data)
    \/ data.type = "hedera" /\ HederaEvent(data)
    \/ data.type = "system" /\ SystemEvent(data)
    \/ data.type = "status" /\ StatusEvent(data)
    \/ /\ data.type \notin HandledTypes
       /\ UNCHANGED <<state, streamingRef, currentAgent>>

----------------------------------------------------------------------------
(* History of the token events, kept for the statements about runs of      *)
(* tokens; no handler reads it.                                            *)

Speakers == {"bull", "bear", "referee"}

SpeakerOf(type) ==
    IF type \in {"bull_token", "bull_complete"} THEN "bull"
    ELSE IF type \in {"bear_token", "bear_complete"} THEN "bear"
    ELSE IF type \in {"referee_token", "referee_complete"} THEN "referee"
    ELSE "none"

IsToken(data) == data.type \in {"bull_token", "bear_token", "referee_token"}
IsComplete(data) == data.type \in {"bull_complete", "bear_complete", "referee_complete"}

\* the round an event of a debater is addressed to; the referee has no rounds (0)
RoundOf(data, currentRound) ==
    IF SpeakerOf(data.type) \in {"bull", "bear"} THEN OrNum(data.round, currentRound) ELSE 0

NoneDelivered == [s \in Speakers |-> <<>>]

Track(h, data, currentRound) ==
    IF IsToken(data)
    THEN [h EXCEPT ![SpeakerOf(data.type)] =
              Append(@, <<RoundOf(data, currentRound), OrStr(data.token, "")>>)]
    ELSE IF IsComplete(data) THEN [h EXCEPT ![SpeakerOf(data.type)] = <<>>]
    ELSE h

RECURSIVE Concat(_)
Concat(run) == IF run = <<>> THEN "" ELSE run[1][2] \o Concat(Tail(run))

RECURSIVE OfRound(_, _)
OfRound(run, round) ==
    IF run = <<>> THEN <<>>
    ELSE IF run[1][1] = round THEN <<run[1]>> \o OfRound(Tail(run), round)
    ELSE OfRound(Tail(run), round)

----------------------------------------------------------------------------
(* The controller.  loops[g] is the position of the g-th invocation of the *)
(* async function startDebate:                                             *)
(*   "none"    not called yet                                              *)
(*   "fetch"   suspended at await fetch(...)                               *)
(*   "read"    suspended at await reader.read()                            *)
(*   "fetchDrain"  its controller was aborted while it was suspended at    *)
(*             await fetch, after the fetch had settled: it resumes with   *)
(*             what the fetch had settled to                               *)
(*   "drain"   its controller was aborted while it was suspended at await  *)
(*             reader.read(), after the read had settled: it resumes with  *)
(*             what the read had settled to                                *)
(*   "chunk"   it resumed after the abort with a chunk and is inside the   *)
(*             for loop over the frames of that chunk, a frame to go       *)
(*   "rejecting"  it is aborted and suspended at the await that was        *)
(*             pending when the controller was aborted, which throws       *)
(*             AbortError                                                  *)
(*   "staleRead"  it is aborted, has resumed with its response or with a   *)
(*             chunk, and is suspended at the reader.read() that follows:  *)
(*             the read throws AbortError, or reports what the body had    *)
(*             come to before the abort, its end or its failure            *)
(*   "end"     returned                                                    *)

\* abortControllerRef.current.abort(); settled: the promise the call awaits
\* had settled before the abort, which then cannot reject it
abort(ls, g, settled) ==
    IF g = 0 THEN ls
    ELSE [ls EXCEPT ![g] = IF @ \notin {"fetch", "read"} THEN @
                           ELSE IF ~settled THEN "rejecting"
                           ELSE IF @ = "fetch" THEN "fetchDrain"
                           ELSE "drain"]

\* an aborted call is inside the for loop over the frames of its last chunk:
\* the loop is synchronous, no call of startDebate or reset runs before it
\* reaches the next reader.read()
Processing == \E g \in Gens : loops[g] = "chunk"

\* a call aborted after its promise had settled has not resumed yet, or is
\* inside the chunk it resumed with
Draining == \E g \in Gens : loops[g] \in {"fetchDrain", "drain", "chunk"}

\* calls aborted after their promise had settled resume in the order of the
\* calls: the promise of call h had settled before call h + 1 reached its fetch
Resumed(g) == \A h \in 1..(g - 1) : loops[h] \notin {"fetchDrain", "drain", "chunk"}

Op(op, g, data) == [op |-> op, gen |-> g, ev |-> data, request |-> <<"", "">>]

\* mutant of startDebate: the round counter survives the restart
startDebateKeepsRound(g, query, symbol) ==
    /\ loops[g] = "none"
    /\ \A h \in 1..(g - 1) : loops[h] # "none"
    /\ ~Processing
    /\ \E settled \in BOOLEAN :
          loops' = [abort(loops, abortControllerRef, settled) EXCEPT ![g] = "fetch"]
    /\ abortControllerRef' = g
    /\ streamingRef' = [FreshStreaming EXCEPT !.currentRound = streamingRef.currentRound]
    /\ state' = LoadingState(query, symbol)
    /\ currentAgent' = "null"
    /\ delivered' = NoneDelivered
    /\ requests' = [requests EXCEPT ![g] = @ + 1]
    /\ last' = [Op("start", g, AgentMessage) EXCEPT !.request = <<query, symbol>>]
    /\ UNCHANGED <<nFrames, vocabulary, chunks, buffer, emitted, closed, pending>>

\* mutant of startDebate: the stored controller is replaced without being
\* aborted
startDebateWithoutAbort(g, query, symbol) ==
    /\ loops[g] = "none"
    /\ \A h \in 1..(g - 1) : loops[h] # "none"
    /\ ~Processing
    /\ loops' = [loops EXCEPT ![g] = "fetch"]
    /\ abortControllerRef' = g
    /\ streamingRef' = FreshStreaming
    /\ state' = LoadingState(query, symbol)
    /\ currentAgent' = "null"
    /\ delivered' = NoneDelivered
    /\ requests' = [requests EXCEPT ![g] = @ + 1]
    /\ last' = [Op("start", g, AgentMessage) EXCEPT !.request = <<query, symbol>>]
    /\ UNCHANGED <<nFrames, vocabulary, chunks, buffer, emitted, closed, pending>>

startDebate(g, query, symbol) ==
    /\ loops[g] = "none"
    /\ \A h \in 1..(g - 1) : loops[h] # "none"
    /\ ~Processing
    /\ \E settled \in BOOLEAN :
          loops' = [abort(loops, abortControllerRef, settled) EXCEPT ![g] = "fetch"]
    /\ abortControllerRef' = g
    /\ streamingRef' = FreshStreaming
    /\ state' = LoadingState(query, symbol)
    /\ currentAgent' = "null"
    /\ delivered' = NoneDelivered
    /\ requests' = [requests EXCEPT ![g] = @ + 1]
    /\ last' = [Op("start", g, AgentMessage) EXCEPT !.request = <<query, symbol>>]
    /\ UNCHANGED <<nFrames, vocabulary, chunks, buffer, emitted, closed, pending>>

\* mutant of catchError: the error message replaces the transcript
catchErrorReplacesMessages(message) ==
    /\ state' = [state EXCEPT !.status = "error",
                     !.messages = <<[AgentMessage EXCEPT !.type = "error",
                                     !.content = {OrStr({message}, "An error occurred")}]>>]
    /\ currentAgent' = "null"

\* mutant of catchError: the current speaker is left as it was
catchErrorKeepsAgent(message) ==
    /\ state' = [state EXCEPT !.status = "error",
                     !.messages = Append(@, [AgentMessage EXCEPT !.type = "error",
                                     !.content = {OrStr({message}, "An error occurred")}])]
    /\ currentAgent' = currentAgent

\* the catch block for an error that is not an AbortError
catchError(message) ==
    /\ state' = [state EXCEPT !.status = "error",
                     !.messages = Append(@, [AgentMessage EXCEPT !.type = "error",
                                     !.content = {OrStr({message}, "An error occurred")}])]
    /\ currentAgent' = "null"

\* mutant of FetchOk: status is left for the first event to change
FetchOkKeepsStatus(g) ==
    /\ loops[g] = "fetch"
    /\ ~Draining
    /\ loops' = [loops EXCEPT ![g] = "read"]
    /\ state' = state
    /\ last' = Op("fetchOk", g, AgentMessage)
    /\ UNCHANGED <<currentAgent, streamingRef, abortControllerRef, nFrames, vocabulary, requests, chunks, buffer, emitted, closed, pending, delivered>>

\* fetch resolves with an ok response that has a body
FetchOk(g) ==
    /\ loops[g] = "fetch"
    /\ ~Draining
    /\ loops' = [loops EXCEPT ![g] = "read"]
    /\ state' = [state EXCEPT !.status = "debating"]
    /\ last' = Op("fetchOk", g, AgentMessage)
    /\ UNCHANGED <<currentAgent, streamingRef, abortControllerRef, nFrames, vocabulary, requests, chunks, buffer, emitted, closed, pending, delivered>>

\* mutant of FetchFail: the failed request is issued again
FetchFailRetries(g) ==
    /\ loops[g] = "fetch"
    /\ ~Draining
    /\ \E message \in TransportErrors : catchError(message)
    /\ loops' = loops
    /\ requests' = [requests EXCEPT ![g] = @ + 1]
    /\ last' = Op("fetchFail", g, AgentMessage)
    /\ UNCHANGED <<streamingRef, abortControllerRef, nFrames, vocabulary, chunks, buffer, emitted, closed, pending, delivered>>

\* fetch rejects, or the response is not ok, or it has no body
FetchFail(g) ==
    /\ loops[g] = "fetch"
    /\ ~Draining
    /\ \E message \in TransportErrors : catchError(message)
    /\ loops' = [loops EXCEPT ![g] = "end"]
    /\ last' = Op("fetchFail", g, AgentMessage)
    /\ UNCHANGED <<streamingRef, abortControllerRef, nFrames, vocabulary, requests, chunks, buffer, emitted, closed, pending, delivered>>

\* the event a frame decodes to: {} when the frame is skipped (line 96) or
\* JSON.parse throws (line 98)
Decoded(line) == IF line.prefix THEN line.json ELSE {}

\* mutant of ProcessLine: a payload that does not parse is promoted to the
\* error of the session
ProcessLinePromotesParseError(line) ==
    IF ~line.prefix THEN UNCHANGED <<state, streamingRef, currentAgent>>
    ELSE IF line.json = {} THEN catchError("Unexpected token") /\ UNCHANGED streamingRef
    ELSE HandleEvent(Some(line.json))

\* the body of the for loop: one line of the split buffer
ProcessLine(line) ==
    IF ~line.prefix THEN UNCHANGED <<state, streamingRef, currentAgent>>
    ELSE IF line.json = {} THEN UNCHANGED <<state, streamingRef, currentAgent>>
    ELSE HandleEvent(Some(line.json))

\* history kept with a processed line
Record(line, g, applied, dropped) ==
    IF Decoded(line) = {}
    THEN delivered' = delivered /\ last' = Op(dropped, g, AgentMessage)
    ELSE /\ delivered' = Track(delivered, Some(line.json), streamingRef.currentRound)
         /\ last' = Op(applied, g, Some(line.json))

\* mutant of ReadFrame: the loop breaks after an error or a done event
ReadFrameStopsAtEnd(g) ==
    /\ loops[g] = "read"
    /\ nFrames < MaxFrames
    /\ \E line \in Lines :
          /\ ProcessLine(line) /\ Record(line, g, "frame", "dropped")
          /\ loops' = IF Decoded(line) # {} /\ Some(line.json).type \in {"error", "done"}
                      THEN [loops EXCEPT ![g] = "end"] ELSE loops
    /\ nFrames' = nFrames + 1
    /\ UNCHANGED <<abortControllerRef, vocabulary, requests, chunks, buffer, emitted, closed, pending>>

\* reader.read() delivers a chunk holding one frame
ReadFrame(g) ==
    /\ loops[g] = "read"
    /\ nFrames < MaxFrames
    /\ \E line \in Lines : ProcessLine(line) /\ Record(line, g, "frame", "dropped")
    /\ nFrames' = nFrames + 1
    /\ UNCHANGED <<loops, abortControllerRef, vocabulary, requests, chunks, buffer, emitted, closed, pending>>

\* a chunk read before the abort is processed after it: one frame of that
\* chunk, the first or the one after the frame processed last; after the
\* last frame the call reaches reader.read() again
StaleFrame(g) ==
    /\ loops[g] \in {"drain", "chunk"}
    /\ Resumed(g)
    /\ nFrames < MaxFrames
    /\ \E line \in Lines : ProcessLine(line) /\ Record(line, g, "staleFrame", "staleDropped")
    /\ nFrames' = nFrames + 1
    /\ \E more \in BOOLEAN :
          /\ more => nFrames + 1 < MaxFrames
          /\ loops' = [loops EXCEPT ![g] = IF more THEN "chunk" ELSE "staleRead"]
    /\ UNCHANGED <<abortControllerRef, vocabulary, requests, chunks, buffer, emitted, closed, pending>>

\* the fetch had resolved with an ok response that has a body before the
\* abort: the call resumes at line 70, sets the status (line 82) and reaches
\* reader.read()
StaleFetchOk(g) ==
    /\ loops[g] = "fetchDrain"
    /\ Resumed(g)
    /\ loops' = [loops EXCEPT ![g] = "staleRead"]
    /\ state' = [state EXCEPT !.status = "debating"]
    /\ last' = Op("staleFetchOk", g, AgentMessage)
    /\ UNCHANGED <<currentAgent, streamingRef, abortControllerRef, nFrames, vocabulary, requests, chunks, buffer, emitted, closed, pending, delivered>>

\* the fetch had rejected with an error that is not an AbortError, or had
\* resolved with a response that is not ok or has no body, before the abort
StaleFetchFail(g) ==
    /\ loops[g] = "fetchDrain"
    /\ Resumed(g)
    /\ \E message \in TransportErrors : catchError(message)
    /\ loops' = [loops EXCEPT ![g] = "end"]
    /\ last' = Op("staleFetchFail", g, AgentMessage)
    /\ UNCHANGED <<streamingRef, abortControllerRef, nFrames, vocabulary, requests, chunks, buffer, emitted, closed, pending, delivered>>

\* the reader.read() of an aborted call reports done: the read had settled
\* so before the abort, or the body had closed before the abort and the call
\* reads it after its response or its last chunk
StaleReadDone(g) ==
    /\ \/ loops[g] = "drain" /\ Resumed(g)
       \/ loops[g] = "staleRead"
    /\ state' = [state EXCEPT !.status = "completed"]
    /\ currentAgent' = "null"
    /\ loops' = [loops EXCEPT ![g] = "end"]
    /\ last' = Op("staleReadDone", g, AgentMessage)
    /\ UNCHANGED <<streamingRef, abortControllerRef, nFrames, vocabulary, requests, chunks, buffer, emitted, closed, pending, delivered>>

\* the reader.read() of an aborted call throws an error that is not an
\* AbortError: the read had rejected before the abort, or the body had failed
\* before the abort and the call reads it after its response or its last chunk
StaleReadFail(g) ==
    /\ \/ loops[g] = "drain" /\ Resumed(g)
       \/ loops[g] = "staleRead"
    /\ \E message \in ReadErrors : catchError(message)
    /\ loops' = [loops EXCEPT ![g] = "end"]
    /\ last' = Op("staleReadFail", g, AgentMessage)
    /\ UNCHANGED <<streamingRef, abortControllerRef, nFrames, vocabulary, requests, chunks, buffer, emitted, closed, pending, delivered>>

\* reader.read() reports done: the loop breaks
ReadDone(g) ==
    /\ loops[g] = "read"
    /\ state' = [state EXCEPT !.status = "completed"]
    /\ currentAgent' = "null"
    /\ loops' = [loops EXCEPT ![g] = "end"]
    /\ last' = Op("readDone", g, AgentMessage)
    /\ UNCHANGED <<streamingRef, abortControllerRef, nFrames, vocabulary, requests, chunks, buffer, emitted, closed, pending, delivered>>

\* reader.read() rejects with an error that is not an AbortError
ReadFail(g) ==
    /\ loops[g] = "read"
    /\ \E message \in ReadErrors : catchError(message)
    /\ loops' = [loops EXCEPT ![g] = "end"]
    /\ last' = Op("readFail", g, AgentMessage)
    /\ UNCHANGED <<streamingRef, abortControllerRef, nFrames, vocabulary, requests, chunks, buffer, emitted, closed, pending, delivered>>

\* the await throws AbortError: 'Request aborted', return
AbortReturn(g) ==
    /\ loops[g] \in {"rejecting", "staleRead"}
    /\ loops' = [loops EXCEPT ![g] = "end"]
    /\ last' = Op("abortReturn", g, AgentMessage)
    /\ UNCHANGED <<state, currentAgent, streamingRef, abortControllerRef, nFrames, vocabulary, requests, chunks, buffer, emitted, closed, pending, delivered>>

reset ==
    /\ ~Processing
    /\ \E settled \in BOOLEAN : loops' = abort(loops, abortControllerRef, settled)
    /\ streamingRef' = FreshStreaming
    /\ state' = IdleState
    /\ currentAgent' = "null"
    /\ delivered' = NoneDelivered
    /\ last' = Op("reset", 0, AgentMessage)
    /\ UNCHANGED <<abortControllerRef, nFrames, vocabulary, requests, chunks, buffer, emitted, closed, pending>>

Init ==
    /\ state = IdleState
    /\ currentAgent = "null"
    /\ streamingRef = FreshStreaming
    /\ abortControllerRef = 0
    /\ loops = [g \in Gens |-> "none"]
    /\ nFrames = 0
    /\ vocabulary \in Vocabularies
    /\ requests = [g \in Gens |-> 0]
    /\ chunks = <<>>
    /\ buffer = <<>>
    /\ emitted = <<>>
    /\ closed = FALSE
    /\ pending = <<>>
    /\ delivered = NoneDelivered
    /\ last = Op("init", 0, AgentMessage)

Next ==
    \/ \E g \in Gens : startDebate(g, Request(g)[1], Request(g)[2])
    \/ \E g \in Gens : FetchOk(g)
    \/ \E g \in Gens : FetchFail(g)
    \/ \E g \in Gens : ReadFrame(g)
    \/ \E g \in Gens : StaleFrame(g)
    \/ \E g \in Gens : StaleFetchOk(g)
    \/ \E g \in Gens : StaleFetchFail(g)
    \/ \E g \in Gens : StaleReadDone(g)
    \/ \E g \in Gens : StaleReadFail(g)
    \/ \E g \in Gens : ReadDone(g)
    \/ \E g \in Gens : ReadFail(g)
    \/ \E g \in Gens : AbortReturn(g)
    \/ reset

Spec == Init /\ [][Next]_vars

----------------------------------------------------------------------------
(* The frame decoder of the read loop, at the level of the text: buffer    *)
(* is a sequence of characters, a chunk is what one reader.read() returns  *)
(* after decoding.  The text is any sequence of two letters and the line   *)
(* feed, cut into chunks in every possible way; it is the body of the      *)
(* first call, whose stream has just opened.  No line of such a text       *)
(* starts with 'data: ', so the loop over the lines visits each line and   *)
(* hands none to a handler (line 96).                                      *)

Chars == {"a", "b", "\n"}

\* the non-empty chunks of at most max characters
Chunks(max) == UNION {[1..n -> Chars] : n \in 1..max}

RECURSIVE Flatten(_)
Flatten(ss) == IF ss = <<>> THEN <<>> ELSE ss[1] \o Flatten(Tail(ss))

\* String.prototype.split('\n\n'): the pieces between the leftmost
\* non-overlapping occurrences of the separator; cur is the piece being read
RECURSIVE SplitFrom(_, _)
SplitFrom(s, cur) ==
    IF s = <<>> THEN <<cur>>
    ELSE IF Len(s) >= 2 /\ s[1] = "\n" /\ s[2] = "\n"
         THEN <<cur>> \o SplitFrom(SubSeq(s, 3, Len(s)), <<>>)
         ELSE SplitFrom(Tail(s), Append(cur, s[1]))

split(s) == SplitFrom(s, <<>>)

\* lines.pop() || ''
pop(lines) == lines[Len(lines)]

\* mutant of Feed: the undelimited tail is not carried to the next chunk
FeedDropsTail(chunk) ==
    /\ loops[1] = "read" /\ ~closed
    /\ LET lines == split(buffer \o chunk)
       IN  /\ buffer' = <<>>
           /\ emitted' = emitted \o SubSeq(lines, 1, Len(lines) - 1)
    /\ chunks' = Append(chunks, chunk)
    /\ UNCHANGED <<state, currentAgent, streamingRef, abortControllerRef, loops, nFrames,
                   vocabulary, requests, closed, pending, delivered, last>>

\* one turn of the while loop: buffer += chunk; split; keep the tail; visit the lines
Feed(chunk) ==
    /\ loops[1] = "read" /\ ~closed
    /\ LET lines == split(buffer \o chunk)
       IN  /\ buffer' = pop(lines)
           /\ emitted' = emitted \o SubSeq(lines, 1, Len(lines) - 1)
    /\ chunks' = Append(chunks, chunk)
    /\ UNCHANGED <<state, currentAgent, streamingRef, abortControllerRef, loops, nFrames,
                   vocabulary, requests, closed, pending, delivered, last>>

\* mutant of Close: the text left in buffer is visited as one more line
CloseFlushesTail ==
    /\ loops[1] = "read" /\ ~closed
    /\ closed' = TRUE
    /\ emitted' = IF buffer = <<>> THEN emitted ELSE Append(emitted, buffer)
    /\ buffer' = <<>>
    /\ state' = [state EXCEPT !.status = "completed"]
    /\ currentAgent' = "null"
    /\ loops' = [loops EXCEPT ![1] = "end"]
    /\ last' = Op("readDone", 1, AgentMessage)
    /\ UNCHANGED <<streamingRef, abortControllerRef, nFrames,
                   vocabulary, requests, chunks, pending, delivered>>

\* reader.read() reports done: if (done) break; buffer is not looked at
\* again, the status is set (290), the speaker cleared (291), the call returns
Close ==
    /\ loops[1] = "read" /\ ~closed
    /\ closed' = TRUE
    /\ state' = [state EXCEPT !.status = "completed"]
    /\ currentAgent' = "null"
    /\ loops' = [loops EXCEPT ![1] = "end"]
    /\ last' = Op("readDone", 1, AgentMessage)
    /\ UNCHANGED <<streamingRef, abortControllerRef, nFrames,
                   vocabulary, requests, chunks, buffer, emitted, pending, delivered>>

NextDecoder ==
    \/ \E chunk \in Chunks(MaxText - Len(Flatten(chunks))) : Feed(chunk)
    \/ Close

\* the first call, startDebate('q1', 'HBAR'), has resumed from its fetch and
\* is at its first reader.read()
InitDecoder ==
    /\ state = [LoadingState(Request(1)[1], Request(1)[2]) EXCEPT !.status = "debating"]
    /\ currentAgent = "null"
    /\ streamingRef = FreshStreaming
    /\ abortControllerRef = 1
    /\ loops = [g \in Gens |-> IF g = 1 THEN "read" ELSE "none"]
    /\ nFrames = 0
    /\ vocabulary = "framing"
    /\ requests = [g \in Gens |-> IF g = 1 THEN 1 ELSE 0]
    /\ chunks = <<>>
    /\ buffer = <<>>
    /\ emitted = <<>>
    /\ closed = FALSE
    /\ pending = <<>>
    /\ delivered = NoneDelivered
    /\ last = Op("fetchOk", 1, AgentMessage)

SpecDecoder == InitDecoder /\ [][NextDecoder]_vars

----------------------------------------------------------------------------
(* The handlers as React runs them.  A handler does two things: at once,   *)
(* while the line is decoded, it updates streamingRef.current and computes *)
(* the constants its updater closes over (currentContent / finalContent,   *)
(* round); and it queues the updater with setState(prev => ...) and the    *)
(* value of setCurrentAgent(...).  React runs the queued updaters, first   *)
(* in first out, when it renders, which is after the whole chunk has been  *)
(* processed: a chunk that holds several frames queues several updaters.   *)

BufferOf(ref, speaker) ==
    IF speaker = "bull" THEN ref.bullContent
    ELSE IF speaker = "bear" THEN ref.bearContent
    ELSE ref.refereeContent

\* what the handler of data does to streamingRef.current
Eager(ref, data) ==
    IF data.type = "bull_token"
    THEN [ref EXCEPT !.bullContent = @ \o OrStr(data.token, "")]
    ELSE IF data.type = "bear_token"
    THEN [ref EXCEPT !.bearContent = @ \o OrStr(data.token, "")]
    ELSE IF data.type = "referee_token"
    THEN [ref EXCEPT !.refereeContent = @ \o OrStr(data.token, "")]
    ELSE IF data.type = "bull_complete" THEN [ref EXCEPT !.bullContent = ""]
    ELSE IF data.type = "bear_complete"
    THEN [ref EXCEPT !.bearContent = "", !.currentRound = @ + 1]
    ELSE IF data.type = "referee_complete" THEN [ref EXCEPT !.refereeContent = ""]
    ELSE ref

\* the updater the handler of data queues: the event and the constants
\* computed from streamingRef.current (ref: its value before the handler)
Updater(ref, data) ==
    [data |-> data,
     content |-> IF IsToken(data)
                 THEN BufferOf(ref, SpeakerOf(data.type)) \o OrStr(data.token, "")
                 ELSE IF IsComplete(data)
                 THEN OrStr(data.content, BufferOf(ref, SpeakerOf(data.type)))
                 ELSE "",
     round |-> IF SpeakerOf(data.type) \in {"bull", "bear"}
               THEN OrNum(data.round, ref.currentRound) ELSE 0]

\* the index the updater looks for in prev.messages
ExistingIdx(ms, u) ==
    IF SpeakerOf(u.data.type) = "referee"
    THEN findIndex({i \in DOMAIN ms : OpenReferee(ms[i])})
    ELSE findIndex({i \in DOMAIN ms : OpenDebater(ms[i], SpeakerOf(u.data.type), u.round)})

\* the message a token updater pushes
TokenMessage(u) ==
    IF SpeakerOf(u.data.type) = "referee"
    THEN [AgentMessage EXCEPT !.type = "referee", !.content = {u.content}]
    ELSE [AgentMessage EXCEPT !.type = SpeakerOf(u.data.type), !.content = {u.content},
                              !.round = {u.round}]

\* const completeMessage: AgentMessage = {...}
CompleteMessage(u) ==
    IF SpeakerOf(u.data.type) = "referee"
    THEN [AgentMessage EXCEPT !.type = "referee", !.content = {u.content},
              !.winner = u.data.winner, !.confidence_score = u.data.confidence_score,
              !.wager_amount = u.data.wager_amount, !.key_factors = u.data.key_factors]
    ELSE [AgentMessage EXCEPT !.type = SpeakerOf(u.data.type), !.content = {u.content},
              !.confidence = u.data.confidence, !.key_points = u.data.key_points,
              !.round = {u.round}]

\* the updater u run on prev
Run(prev, u) ==
    IF IsToken(u.data)
    THEN [prev EXCEPT !.messages =
              PutContent(@, ExistingIdx(@, u), u.content, TokenMessage(u))]
    ELSE IF u.data.type \in {"bull_complete", "bear_complete"}
    THEN [prev EXCEPT !.messages = PutComplete(@, ExistingIdx(@, u), CompleteMessage(u))]
    ELSE IF u.data.type = "referee_complete"
    THEN [prev EXCEPT !.messages = PutComplete(@, ExistingIdx(@, u), CompleteMessage(u)),
                      !.winner = u.data.winner,
                      !.confidence_score = u.data.confidence_score,
                      !.wager_amount = u.data.wager_amount]
    ELSE IF u.data.type = "done" THEN [prev EXCEPT !.status = "completed"]
    ELSE IF u.data.type = "error"
    THEN [prev EXCEPT !.status = "error", !.messages = Append(@, u.data)]
    ELSE IF u.data.type = "hedera"
    THEN [prev EXCEPT !.messages = Append(@, u.data),
                      !.hcs_tx = u.data.hcs_tx, !.wager_tx = u.data.wager_tx]
    ELSE IF u.data.type = "system" THEN [prev EXCEPT !.messages = Append(@, u.data)]
    ELSE prev

\* the argument of the handler's setCurrentAgent call, {} when it makes none
AgentSet(data) ==
    IF IsToken(data) THEN {SpeakerOf(data.type)}
    ELSE IF IsComplete(data) \/ data.type = "done" THEN {"null"}
    ELSE IF data.type = "status" /\ data.status = {"bull_analyzing"} THEN {"bull"}
    ELSE IF data.type = "status" /\ data.status = {"bear_analyzing"} THEN {"bear"}
    ELSE IF data.type = "status" /\ data.status = {"referee_evaluating"} THEN {"referee"}
    ELSE {}

\* mutant of RunAll: the queue is run last in first out
RECURSIVE RunAllLifo(_, _)
RunAllLifo(prev, queue) ==
    IF queue = <<>> THEN prev
    ELSE Run(RunAllLifo(prev, Tail(queue)), queue[1])

\* React runs the queued updaters in the order of the setState calls
RECURSIVE RunAll(_, _)
RunAll(prev, queue) ==
    IF queue = <<>> THEN prev
    ELSE RunAll(Run(prev, queue[1]), Tail(queue))

\* the queued setCurrentAgent values: the last one stands
RECURSIVE AgentAfter(_, _)
AgentAfter(agent, queue) ==
    IF queue = <<>> THEN agent
    ELSE AgentAfter(IF AgentSet(queue[1].data) = {} THEN agent
                    ELSE Some(AgentSet(queue[1].data)), Tail(queue))

\* the events a vocabulary's frames decode to
DecodedEvents == {Some(line.json) : line \in {l \in Lines : Decoded(l) # {}}}

\* a frame of the current chunk is decoded: streamingRef.current is updated,
\* the updater is queued
Decode(data) ==
    /\ Len(Flatten(chunks)) < MaxFrames
    /\ streamingRef' = Eager(streamingRef, data)
    /\ pending' = Append(pending, Updater(streamingRef, data))
    /\ chunks' = IF pending = <<>> THEN Append(chunks, <<data>>)
                 ELSE [chunks EXCEPT ![Len(chunks)] = Append(@, data)]
    /\ UNCHANGED <<state, currentAgent, abortControllerRef, loops, nFrames, vocabulary,
                   requests, buffer, emitted, closed, delivered, last>>

\* mutant of Render: only the updater queued last is run
RenderLastOnly ==
    /\ pending # <<>>
    /\ state' = Run(state, pending[Len(pending)])
    /\ currentAgent' = AgentAfter(currentAgent, pending)
    /\ pending' = <<>>
    /\ UNCHANGED <<streamingRef, abortControllerRef, loops, nFrames, vocabulary,
                   requests, chunks, buffer, emitted, closed, delivered, last>>

\* the chunk is done and the loop awaits the next read: React renders
Render ==
    /\ pending # <<>>
    /\ state' = RunAll(state, pending)
    /\ currentAgent' = AgentAfter(currentAgent, pending)
    /\ pending' = <<>>
    /\ UNCHANGED <<streamingRef, abortControllerRef, loops, nFrames, vocabulary,
                   requests, chunks, buffer, emitted, closed, delivered, last>>

\* a chunk that holds one frame, rendered before the next is read
Single(data) ==
    /\ Len(Flatten(chunks)) < MaxFrames
    /\ pending = <<>>
    /\ HandleEvent(data)
    /\ chunks' = Append(chunks, <<data>>)
    /\ UNCHANGED <<pending, abortControllerRef, loops, nFrames, vocabulary,
                   requests, buffer, emitted, closed, delivered, last>>

\* the first call of startDebate, its stream just opened
InitBatch ==
    /\ state = [LoadingState(Request(1)[1], Request(1)[2]) EXCEPT !.status = "debating"]
    /\ currentAgent = "null"
    /\ streamingRef = FreshStreaming
    /\ abortControllerRef = 1
    /\ loops = [g \in Gens |-> IF g = 1 THEN "read" ELSE "none"]
    /\ nFrames = 0
    /\ vocabulary \in Vocabularies
    /\ requests = [g \in Gens |-> IF g = 1 THEN 1 ELSE 0]
    /\ chunks = <<>>
    /\ buffer = <<>>
    /\ emitted = <<>>
    /\ closed = FALSE
    /\ pending = <<>>
    /\ delivered = NoneDelivered
    /\ last = Op("fetchOk", 1, AgentMessage)

NextBatch ==
    \/ \E data \in DecodedEvents : Decode(data)
    \/ Render
    \/ \E data \in DecodedEvents : Single(data)

SpecBatch == InitBatch /\ [][NextBatch]_vars

\* the pure reducer (state, buffers, event) -> (state', buffers'), with the
\* current speaker: the handler of data run at once on s
Reduce(s, data) ==
    [state |-> Run(s.state, Updater(s.ref, data)),
     ref |-> Eager(s.ref, data),
     agent |-> IF AgentSet(data) = {} THEN s.agent ELSE Some(AgentSet(data))]

RECURSIVE Fold(_, _)
Fold(s, events) ==
    IF events = <<>> THEN s ELSE Fold(Reduce(s, events[1]), Tail(events))

----------------------------------------------------------------------------
(* Vocabulary of the statements below.                                     *)

Messages == state.messages

\* the step that produced the current state applied an event
Applied == last.op \in {"frame", "staleFrame"}

\* the (type, round) key of the message an event of a speaker writes
KeyOf(m) == <<m.type, IF m.type \in {"bull", "bear"} THEN m.round ELSE {}>>
EventKey(data, currentRound) ==
    <<SpeakerOf(data.type),
      IF SpeakerOf(data.type) \in {"bull", "bear"} THEN {RoundOf(data, currentRound)} ELSE {}>>

\* the finality field of a message: confidence for bull / bear, winner for referee
Finality(m) == IF m.type = "referee" THEN m.winner ELSE m.confidence

\* the finality field of a complete event
EventFinality(data) ==
    IF SpeakerOf(data.type) = "referee" THEN data.winner ELSE data.confidence

\* a message of a speaker that carries its finality field
Finalized(m) == m.type \in Speakers /\ Finality(m) # {}

\* a message of a speaker whose finality field is absent
Open(m) == m.type \in Speakers /\ Finality(m) = {}

\* a message of a speaker that the handlers treat as open: the finality field is
\* absent or falsy (confidence 0)
Falsy(m) ==
    /\ m.type \in Speakers
    /\ IF m.type = "referee" THEN ~TruthyStr(m.winner) ELSE ~TruthyNum(m.confidence)

\* the indices of the messages with a key
With(ms, key) == {i \in 1..Len(ms) : KeyOf(ms[i]) = key}

----------------------------------------------------------------------------
\* C1: an event of a superseded stream that is delivered after the next
\* start() (or reset()) is discarded: it changes neither the messages, nor the
\* per-speaker buffers, nor the round counter of the session that replaced it.
C1_StaleEventDiscarded ==
    [][(last'.op = "staleFrame" /\ nFrames >= 1)
          => (state'.messages = state.messages /\ streamingRef' = streamingRef)]_vars

----------------------------------------------------------------------------
\* C2 (as claimed): after a token event, the open message of its (speaker, round)
\* holds the concatenation of the tokens addressed to that (speaker, round) since
\* the speaker's last complete event, and no text of tokens of another round.
C2_RunOnlyContent ==
    (Applied /\ IsToken(last.ev)) =>
        LET s == SpeakerOf(last.ev.type)
            r == delivered[s][Len(delivered[s])][1]
            key == <<s, IF s = "referee" THEN {} ELSE {r}>>
        IN \E i \in With(Messages, key) :
              /\ Falsy(Messages[i])
              /\ Messages[i].content = {Concat(OfRound(delivered[s], r))}

\* C2 (amended): after a token event, the open message of its (speaker, round)
\* holds the concatenation, in delivery order, of all tokens of that speaker
\* delivered since the speaker's last complete event (or the session's start),
\* whatever round each was addressed to; it is the only open message of that key.
C2_BufferContent ==
    (Applied /\ IsToken(last.ev)) =>
        LET s == SpeakerOf(last.ev.type)
            r == delivered[s][Len(delivered[s])][1]
            key == <<s, IF s = "referee" THEN {} ELSE {r}>>
            open == {i \in With(Messages, key) : Falsy(Messages[i])}
        IN /\ Cardinality(open) = 1
           /\ \A i \in open : Messages[i].content = {Concat(delivered[s])}

\* two tokens "a" then "b" of one speaker, addressed to two rounds, were applied
C2_Witness ==
    /\ Applied /\ last.ev.type = "bull_token"
    /\ delivered["bull"] = <<<<1, "a">>, <<2, "b">>>>
    /\ \E i \in 1..Len(Messages) : Messages[i].content = {"ab"} /\ Messages[i].round = {2}

----------------------------------------------------------------------------
\* the step applied an event / a complete event / a token event
AppliedStep == last'.op \in {"frame", "staleFrame"}
CompleteStep == AppliedStep /\ IsComplete(last'.ev)
TokenStep == AppliedStep /\ IsToken(last'.ev)

\* the key of the event the step applied (its round falls back to the round
\* counter as it was before the step)
StepKey == EventKey(last'.ev, streamingRef.currentRound)

\* C3 (as claimed): after a complete event there is exactly one message of its
\* (speaker, round), also when it is the second complete event for that key.
C3_ExactlyOnePerKey ==
    [][CompleteStep => Cardinality(With(state'.messages, StepKey)) = 1]_vars

\* C3 (amended): a complete event overwrites in place the first message of its
\* (speaker, round) that still counts as open (finality field absent or 0) and
\* leaves the number of messages of that key unchanged; when there is none, also
\* when an earlier complete event finalized one, it appends one finalized message
\* and the number grows by one.  Every other message is left as it was.
C3_OverwriteOpenOrAppend ==
    [][CompleteStep =>
        LET ms == state.messages
            ms2 == state'.messages
            open == {i \in With(ms, StepKey) : Falsy(ms[i])}
        IN IF open # {}
           THEN LET idx == CHOOSE i \in open : \A j \in open : i <= j
                IN /\ Len(ms2) = Len(ms)
                   /\ Cardinality(With(ms2, StepKey)) = Cardinality(With(ms, StepKey))
                   /\ KeyOf(ms2[idx]) = StepKey
                   /\ Finality(ms2[idx]) = EventFinality(last'.ev)
                   /\ \A i \in 1..Len(ms) : i # idx => ms2[i] = ms[i]
           ELSE /\ Len(ms2) = Len(ms) + 1
                /\ Cardinality(With(ms2, StepKey)) = Cardinality(With(ms, StepKey)) + 1
                /\ KeyOf(ms2[Len(ms2)]) = StepKey
                /\ Finality(ms2[Len(ms2)]) = EventFinality(last'.ev)
                /\ SubSeq(ms2, 1, Len(ms)) = ms]_vars

\* a second complete event for (bull, round 1) was applied after a first one that
\* carried confidence 80: two finalized messages of that key
C3_Witness ==
    /\ Applied /\ last.ev.type = "bull_complete"
    /\ Cardinality(With(Messages, <<"bull", {1}>>)) = 2
    /\ \A i \in With(Messages, <<"bull", {1}>>) : Messages[i].confidence = {80}

----------------------------------------------------------------------------
\* C4: once a message carries its finality field (confidence for bull / bear,
\* winner for referee, whatever the value), no later event changes it.
C4_FinalizedNeverMutated ==
    [][AppliedStep =>
        \A i \in 1..Len(state.messages) :
            Finalized(state.messages[i]) =>
                /\ i <= Len(state'.messages)
                /\ state'.messages[i] = state.messages[i]]_vars

----------------------------------------------------------------------------
\* C5: a token event for a (speaker, round) all of whose messages were finalized
\* by complete events appends a new message at the end, holding the text
\* accumulated since the complete event, and leaves the other messages untouched.
C5_LateTokenAppends ==
    [][(/\ TokenStep
        /\ With(state.messages, StepKey) # {}
        /\ \A i \in With(state.messages, StepKey) : Finalized(state.messages[i]))
        => state'.messages =
              Append(state.messages,
                     [AgentMessage EXCEPT !.type = StepKey[1], !.round = StepKey[2],
                          !.content = {Concat(delivered'[StepKey[1]])}])]_vars

----------------------------------------------------------------------------
\* C6: in every reachable state no two messages of the same speaker and round
\* (of the referee: no two referee messages) are both open, where open is taken
\* in the wider sense of the handlers: finality field absent or falsy.
C6_AtMostOneOpen ==
    \A i, j \in 1..Len(Messages) :
        (i # j /\ KeyOf(Messages[i]) = KeyOf(Messages[j]))
            => ~(Falsy(Messages[i]) /\ Falsy(Messages[j]))

\* a token opened a second message for a key that already has a finalized one
C6_Witness ==
    /\ Applied /\ IsToken(last.ev)
    /\ \E i, j \in 1..Len(Messages) :
          /\ i < j /\ KeyOf(Messages[i]) = KeyOf(Messages[j])
          /\ Finalized(Messages[i]) /\ ~Falsy(Messages[i]) /\ Open(Messages[j])

----------------------------------------------------------------------------
\* C7: the round counter is 1 after start() and reset(), grows by exactly 1 when
\* a bear_complete event is applied and is left unchanged by every other event
\* and by every other step of the controller.
C7_RoundCounter ==
    [][/\ AppliedStep =>
             streamingRef'.currentRound =
                 streamingRef.currentRound + (IF last'.ev.type = "bear_complete" THEN 1 ELSE 0)
       /\ last'.op \in {"start", "reset"} => streamingRef'.currentRound = 1
       /\ (~AppliedStep /\ last'.op \notin {"start", "reset"})
             => streamingRef'.currentRound = streamingRef.currentRound]_vars

\* two bear_complete events were applied in one session
C7_Witness ==
    Applied /\ last.ev.type = "bear_complete" /\ streamingRef.currentRound = 3

----------------------------------------------------------------------------
\* C8: within a session the message list never shrinks and the type and round
\* of the message at every existing index never change.
C8_AppendOnly ==
    [][last'.op \notin {"start", "reset"} =>
        /\ Len(state'.messages) >= Len(state.messages)
        /\ \A i \in 1..Len(state.messages) :
              /\ state'.messages[i].type = state.messages[i].type
              /\ state'.messages[i].round = state.messages[i].round]_vars

\* a second token updated an open bull message in place although another
\* message had been appended after it
C8_Witness ==
    /\ Applied /\ last.ev.type = "bull_token"
    /\ Len(Messages) = 2
    /\ Messages[1].type = "bull" /\ Messages[1].content = {"aa"}
    /\ Messages[2].type \in {"system", "hedera", "error"}

----------------------------------------------------------------------------
\* C9: between start() / reset() calls every change of status is one of
\* loading -> debating, debating -> completed, debating -> error.
C9_StatusEdges ==
    [][(last'.op \notin {"start", "reset"} /\ state'.status # state.status)
        => <<state.status, state'.status>> \in
              {<<"loading", "debating">>, <<"debating", "completed">>,
               <<"debating", "error">>}]_vars

----------------------------------------------------------------------------
\* C10: a done event sets status to completed unless it is error, which it
\* leaves, and clears the current speaker.
C10_DoneKeepsError ==
    [][(AppliedStep /\ last'.ev.type = "done") =>
        /\ state'.status = (IF state.status = "error" THEN "error" ELSE "completed")
        /\ currentAgent' = "null"]_vars

----------------------------------------------------------------------------
\* C11: when the stream closes, status becomes completed unless it is already
\* error, which it stays: a session in which an error event was applied ends
\* with status error.
C11_CloseKeepsError ==
    [][last'.op = "readDone" =>
        state'.status = (IF state.status = "error" THEN "error" ELSE "completed")]_vars

----------------------------------------------------------------------------
\* C12: when done is applied in a session whose event sequence is well formed
\* (every token of a speaker was followed by that speaker's complete event and
\* no error event was applied), status is completed and the text buffers of
\* bull, bear and referee are all empty.
WellFormedSoFar ==
    /\ \A s \in Speakers : delivered[s] = <<>>
    /\ \A i \in DOMAIN Messages : Messages[i].type # "error"

C12_DoneCompletesAndDrains ==
    (Applied /\ last.ev.type = "done" /\ WellFormedSoFar) =>
        /\ state.status = "completed"
        /\ streamingRef.bullContent = ""
        /\ streamingRef.bearContent = ""
        /\ streamingRef.refereeContent = ""

\* bull_token, bull_complete, done: the run of bull was closed before done
C12_Witness ==
    /\ last.op = "frame" /\ last.ev.type = "done" /\ WellFormedSoFar
    /\ Len(Messages) = 1
    /\ Messages[1].type = "bull" /\ Messages[1].content = {"a"}
    /\ Messages[1].confidence = {80}

----------------------------------------------------------------------------
\* C13: a frame that lacks the data prefix or whose payload is not valid JSON
\* is dropped: messages, buffers, round counter, status and current speaker
\* are unchanged (so status is not set to error), and the loop that read it
\* stays where it was, so the frames after it are applied as if it had not
\* been there.
C13_InvalidFrameDropped ==
    [][last'.op \in {"dropped", "staleDropped"} =>
        /\ state' = state
        /\ streamingRef' = streamingRef
        /\ currentAgent' = currentAgent
        /\ delivered' = delivered
        /\ last'.op = "dropped" => loops' = loops]_vars

\* three frames were read, one of them was dropped, and the tokens a and b
\* of the other two were applied in their order
C13_Witness ==
    /\ vocabulary = "framing"
    /\ nFrames = 3 /\ last.op = "frame" /\ last.ev.type = "bull_token"
    /\ state.status = "debating"
    /\ Len(Messages) = 1 /\ Messages[1].content = {"ab"}
    /\ streamingRef.bullContent = "ab"

----------------------------------------------------------------------------
\* C14: a transport failure that is not a cancellation (fetch rejects, the
\* response is not ok or has no body, reader.read() rejects) appends exactly
\* one error message with a non-empty text after the existing messages, which
\* are unchanged, sets status to error and clears the current speaker, before
\* the first event as well as mid-stream.
C14_TransportFailure ==
    [][last'.op \in {"fetchFail", "readFail", "staleFetchFail", "staleReadFail"} =>
        /\ Len(state'.messages) = Len(state.messages) + 1
        /\ SubSeq(state'.messages, 1, Len(state.messages)) = state.messages
        /\ state'.messages[Len(state'.messages)].type = "error"
        /\ TruthyStr(state'.messages[Len(state'.messages)].content)
        /\ state'.status = "error"
        /\ currentAgent' = "null"]_vars

\* the read failed mid-stream, after a bull message had been written
C14_Witness ==
    /\ last.op = "readFail"
    /\ Len(Messages) = 2
    /\ Messages[1].type = "bull" /\ Messages[2].type = "error"
    /\ state.status = "error" /\ currentAgent = "null"

----------------------------------------------------------------------------
\* C15: a session cancelled by reset() or by a superseding start() appends no
\* message, changes status no further and has none of its remaining events
\* applied: a step of a cancelled session leaves state, buffers, round counter
\* and current speaker as they are.
C15_CancelledSessionSilent ==
    [][last'.op \in {"staleFrame", "staleDropped", "abortReturn", "staleFetchOk",
                     "staleFetchFail", "staleReadDone", "staleReadFail"} =>
        /\ state' = state
        /\ streamingRef' = streamingRef
        /\ currentAgent' = currentAgent]_vars

----------------------------------------------------------------------------
\* C16: reset() aborts the stream in flight and yields status idle, no
\* messages, empty buffers, round counter 1 and no current speaker, and
\* that state stays until the next start().
ResetState ==
    state = IdleState /\ streamingRef = FreshStreaming /\ currentAgent = "null"

C16_ResetStays ==
    [][/\ last'.op = "reset" =>
            /\ ResetState'
            /\ \A g \in Gens : loops'[g] \notin {"fetch", "read"}
       /\ (ResetState /\ last'.op # "start") => ResetState']_vars

----------------------------------------------------------------------------
\* C17: from any state, start(query, symbol) at once empties the messages
\* and the three buffers, sets the round counter to 1 and status to loading,
\* and stores the given query and symbol; no event is applied by that step.
C17_StartResets ==
    [][last'.op = "start" =>
        /\ state'.messages = <<>>
        /\ streamingRef'.bullContent = ""
        /\ streamingRef'.bearContent = ""
        /\ streamingRef'.refereeContent = ""
        /\ streamingRef'.currentRound = 1
        /\ state'.status = "loading"
        /\ <<state'.query, state'.symbol>> = last'.request
        /\ nFrames' = nFrames]_vars

\* the second start, with its own arguments, after a session in which three
\* frames had been processed
C17_Witness ==
    /\ last.op = "start" /\ last.gen = 2 /\ last.request = <<"q2", "BTC">>
    /\ nFrames = 3
    /\ state.status = "loading" /\ state.query = "q2" /\ state.symbol = "BTC"
    /\ Messages = <<>> /\ streamingRef = FreshStreaming

----------------------------------------------------------------------------
\* C18 (as claimed): status becomes debating only by the step that applies a
\* decoded event of the stream.
C18_DebatingAtFirstEvent ==
    [][(state'.status = "debating" /\ state.status # "debating") => last'.op = "frame"]_vars

\* C18 (amended): status becomes debating exactly when a call resumes from a
\* fetch that resolved with an ok response that has a body (also a call that
\* was superseded or reset while it waited), before any frame is read and
\* whatever the stream delivers afterwards; no other step makes it debating.
C18_DebatingWhenStreamOpens ==
    [][/\ last'.op \in {"fetchOk", "staleFetchOk"} =>
            /\ state'.status = "debating"
            /\ state'.messages = state.messages
            /\ nFrames' = nFrames
       /\ (state'.status = "debating" /\ state.status # "debating")
            => last'.op \in {"fetchOk", "staleFetchOk"}]_vars

\* the stream has just opened: debating, and no frame has been read
C18_Witness ==
    /\ last.op = "fetchOk" /\ state.status = "debating"
    /\ nFrames = 0 /\ Messages = <<>>

----------------------------------------------------------------------------
\* C19: every call of start() issues exactly one request and never issues it
\* again, whatever happens to it afterwards (transport failure, abort, error
\* event, close): a call that has not happened has issued none, every other
\* call exactly one.
C19_OneRequestPerStart ==
    \A g \in Gens : requests[g] = (IF loops[g] = "none" THEN 0 ELSE 1)

\* the first call has returned and the second has just failed in transport:
\* each has issued its one request
C19_Witness ==
    /\ last.op = "fetchFail" /\ last.gen = 2
    /\ loops[1] = "end" /\ loops[2] = "end"
    /\ requests[1] = 1 /\ requests[2] = 1
    /\ state.status = "error"

----------------------------------------------------------------------------
\* C20: however the input text is cut into chunks, the lines the decoder has
\* visited are exactly the delimiter-terminated frames of the text read so
\* far, each once and in the order of their delimiters, and the carried
\* buffer is the text after the last delimiter.
Text == Flatten(chunks)

\* the frames of a text taken as a whole: the pieces that end with a delimiter
Frames(text) == SubSeq(split(text), 1, Len(split(text)) - 1)

C20_ChunkingIndependent ==
    /\ emitted = Frames(Text)
    /\ buffer = pop(split(Text))

\* the text a\n\nb\n\n read in three chunks, cut inside the first delimiter
\* and inside the second frame's delimiter: both frames came out, in order
C20_Witness ==
    /\ chunks = << <<"a", "\n">>, <<"\n", "b", "\n">>, <<"\n">> >>
    /\ emitted = << <<"a">>, <<"b">> >>
    /\ buffer = <<>>

----------------------------------------------------------------------------
\* C21: when the stream closes, the text after the last blank-line delimiter
\* is discarded: the close visits no line, and the lines visited over the
\* whole stream are the delimiter-terminated frames only, whatever the
\* unterminated tail holds.
C21_TrailingTextDiscarded ==
    [][(closed' /\ ~closed) =>
        /\ emitted' = emitted
        /\ emitted' = Frames(Text)
        /\ Len(emitted') + 1 = Len(split(Text))]_vars

\* the text a\n\nb was read and the stream closed: the frame a was visited,
\* the unterminated b was not
C21_Witness ==
    /\ closed
    /\ Text = <<"a", "\n", "\n", "b">>
    /\ emitted = << <<"a">> >>
    /\ buffer = <<"b">>

----------------------------------------------------------------------------
\* C22: the published messages, summary and status, the buffers, the round
\* counter and the current speaker are a function of the sequence of events
\* decoded since the stream opened: whenever no updater is queued they equal
\* what the session that is given the same events one per chunk has, however
\* the events were grouped into chunks.
StreamOpened ==
    [state |-> [LoadingState(Request(1)[1], Request(1)[2]) EXCEPT !.status = "debating"],
     ref |-> FreshStreaming, agent |-> "null"]

Published == [state |-> state, ref |-> streamingRef, agent |-> currentAgent]

OnePerChunk(events) == Fold(StreamOpened, events)

C22_Deterministic ==
    pending = <<>> => Published = OnePerChunk(Flatten(chunks))

\* three events in two chunks, the second chunk holding a token and the
\* complete event of bull: one finalized message with the text of both tokens
C22_Witness ==
    /\ pending = <<>>
    /\ Len(chunks) = 2 /\ Len(chunks[1]) = 1 /\ Len(chunks[2]) = 2
    /\ chunks[2][2].type = "bull_complete"
    /\ Len(Messages) = 1
    /\ Messages[1].content = {"ab"} /\ Messages[1].confidence = {80}

----------------------------------------------------------------------------
\* C28: the implementation refines the fold of the pure reducer over the
\* decoded events in arrival order: at every moment the buffers and the round
\* counter, which the handlers update at decode time, are those of the fold,
\* and running the queued updaters first in first out on the published state
\* gives the state (and the current speaker) of the fold; so what is
\* published once the queue is empty is the fold.
C28_FoldOfReducer ==
    LET folded == Fold(StreamOpened, Flatten(chunks))
    IN  /\ streamingRef = folded.ref
        /\ RunAll(state, pending) = folded.state
        /\ AgentAfter(currentAgent, pending) = folded.agent

\* bull_token a was rendered; bull_token b and bull_complete are decoded and
\* their updaters still queued: the buffer is already cleared while the
\* published message is still open with the text a
C28_Witness ==
    /\ Len(pending) = 2
    /\ pending[1].data.type = "bull_token" /\ pending[2].data.type = "bull_complete"
    /\ pending[2].content = "ab"
    /\ streamingRef.bullContent = ""
    /\ Len(Messages) = 1
    /\ Messages[1].content = {"a"} /\ Messages[1].confidence = {}

----------------------------------------------------------------------------
\* C23: when the transcript holds one message, the open message that the
\* tokens of a speaker created in round 1, and that speaker's complete event
\* arrives without content and without round, the transcript still holds
\* that one message at its index: its content is the concatenation of the
\* tokens, it carries the finality fields of the event, and its round is 1.
C23_TokensThenComplete ==
    [][LET sp == SpeakerOf(last'.ev.type)
           ms == state.messages
           m == state'.messages[1]
       IN (/\ CompleteStep /\ last'.ev.content = {} /\ last'.ev.round = {}
           /\ streamingRef.currentRound = 1
           /\ delivered[sp] # <<>>
           /\ \A other \in Speakers \ {sp} : delivered[other] = <<>>
           /\ Len(ms) = 1 /\ ms[1].type = sp /\ Open(ms[1])
           /\ sp \in {"bull", "bear"} => ms[1].round = {1})
          => /\ Len(state'.messages) = 1
             /\ m.type = sp
             /\ m.content = {Concat(delivered[sp])}
             /\ IF sp = "referee"
                THEN /\ m.winner = last'.ev.winner
                     /\ m.confidence_score = last'.ev.confidence_score
                     /\ m.wager_amount = last'.ev.wager_amount
                     /\ m.key_factors = last'.ev.key_factors
                     /\ m.round = {}
                ELSE /\ m.confidence = last'.ev.confidence
                     /\ m.key_points = last'.ev.key_points
                     /\ m.round = {1}]_vars

\* first session: bull_token a, bull_token b, bull_complete(confidence 80)
C23_Witness ==
    /\ loops[2] = "none" /\ nFrames = 3
    /\ last.op = "frame" /\ last.ev.type = "bull_complete" /\ last.ev.content = {}
    /\ Len(Messages) = 1
    /\ Messages[1].type = "bull" /\ Messages[1].content = {"ab"}
    /\ Messages[1].confidence = {80} /\ Messages[1].key_points = {<<"x">>}
    /\ Messages[1].round = {1}

----------------------------------------------------------------------------
\* C24: an error event appends exactly one message, the event itself (type
\* error, with the event's content), after the existing messages, which are
\* unchanged, and sets status to error.
C24_ErrorEvent ==
    [][(AppliedStep /\ last'.ev.type = "error") =>
        /\ Len(state'.messages) = Len(state.messages) + 1
        /\ SubSeq(state'.messages, 1, Len(state.messages)) = state.messages
        /\ state'.messages[Len(state'.messages)].type = "error"
        /\ state'.messages[Len(state'.messages)].content = last'.ev.content
        /\ state'.status = "error"]_vars

\* error("boom") after a bull message had been written
C24_Witness ==
    /\ last.op = "frame" /\ last.ev.type = "error"
    /\ Len(Messages) = 2
    /\ Messages[1].type = "bull"
    /\ Messages[2].type = "error" /\ Messages[2].content = {"boom"}
    /\ state.status = "error"

----------------------------------------------------------------------------
\* the step applied a token of a debater that carries no round field, after
\* earlier tokens of that debater
RoundlessTokenStep ==
    /\ TokenStep /\ last'.ev.round = {}
    /\ SpeakerOf(last'.ev.type) \in {"bull", "bear"}
    /\ delivered[SpeakerOf(last'.ev.type)] # <<>>

\* after the step some message of speaker sp and round r holds the whole
\* buffer of sp
WrittenTo(sp, r) ==
    \E i \in DOMAIN state'.messages :
        /\ KeyOf(state'.messages[i]) = <<sp, {r}>>
        /\ state'.messages[i].content = {BufferOf(streamingRef', sp)}

\* C25: a token without round is written to the message of the
\* round of the same speaker's most recent token, whatever other speakers'
\* events did to the round counter in between.
C25_SpeakerRoundFallback ==
    [][RoundlessTokenStep =>
        LET sp == SpeakerOf(last'.ev.type)
        IN  WrittenTo(sp, delivered[sp][Len(delivered[sp])][1])]_vars

----------------------------------------------------------------------------
\* C26: the message a complete event finalizes holds the event's content
\* whenever the event supplies the field, the empty string included, and the
\* speaker's buffer only when the field is absent; afterwards the speaker's
\* buffer is empty.
C26_ContentWhenSupplied ==
    [][CompleteStep =>
        LET sp == SpeakerOf(last'.ev.type)
            finalText == IF last'.ev.content # {} THEN last'.ev.content
                         ELSE {BufferOf(streamingRef, sp)}
        IN  /\ \E i \in With(state'.messages, StepKey) :
                   /\ state'.messages[i].content = finalText
                   /\ Finality(state'.messages[i]) = EventFinality(last'.ev)
            /\ BufferOf(streamingRef', sp) = ""]_vars

----------------------------------------------------------------------------
\* C27: a complete event whose (speaker, round) has no open message appends
\* exactly one message, which carries the event's finality field, at the end
\* of messages and changes no existing message.
C27_CompleteWithoutOpenAppends ==
    [][(/\ CompleteStep
        /\ \A i \in With(state.messages, StepKey) : ~Open(state.messages[i]))
       => /\ Len(state'.messages) = Len(state.messages) + 1
          /\ SubSeq(state'.messages, 1, Len(state.messages)) = state.messages
          /\ LET m == state'.messages[Len(state'.messages)]
             IN  /\ KeyOf(m) = StepKey
                 /\ Finality(m) = EventFinality(last'.ev)]_vars

----------------------------------------------------------------------------
\* C29: a status event bull_analyzing, bear_analyzing or referee_evaluating
\* sets the current speaker to the speaker it names and changes neither the
\* messages, nor the buffers, nor the round counter, nor the status.
C29_StatusEvent ==
    [][(/\ AppliedStep /\ last'.ev.type = "status"
        /\ last'.ev.status \in {{"bull_analyzing"}, {"bear_analyzing"},
                                {"referee_evaluating"}})
       => /\ currentAgent' = (IF last'.ev.status = {"bull_analyzing"} THEN "bull"
                              ELSE IF last'.ev.status = {"bear_analyzing"} THEN "bear"
                              ELSE "referee")
          /\ state'.messages = state.messages
          /\ state'.status = state.status
          /\ streamingRef' = streamingRef]_vars

\* bear_analyzing after bull_token a: the open bull message and the bull
\* buffer are as the token left them, the current speaker is bear
C29_Witness ==
    /\ last.op = "frame" /\ last.ev.type = "status"
    /\ last.ev.status = {"bear_analyzing"}
    /\ currentAgent = "bear"
    /\ Len(Messages) = 1 /\ Messages[1].type = "bull" /\ Messages[1].content = {"a"}
    /\ BufferOf(streamingRef, "bull") = "a"
    /\ state.status = "debating"

----------------------------------------------------------------------------
\* C30: a system event and a hedera event each append exactly one message,
\* the event itself, after the existing messages, which are all unchanged
\* (the event is not merged into any of them), and change neither the buffers
\* nor the round counter; a hedera event also stores its transaction
\* references as the session's hcs_tx and wager_tx.
C30_SystemAndHederaAppend ==
    [][(AppliedStep /\ last'.ev.type \in {"system", "hedera"})
       => /\ state'.messages = Append(state.messages, last'.ev)
          /\ streamingRef' = streamingRef
          /\ last'.ev.type = "hedera"
                => /\ state'.hcs_tx = last'.ev.hcs_tx
                   /\ state'.wager_tx = last'.ev.wager_tx]_vars

\* system, system, hedera: the second system event was not merged into the
\* first, the hedera event came last and its references are stored
C30_Witness ==
    /\ last.op = "frame" /\ last.ev.type = "hedera"
    /\ Len(Messages) = 3
    /\ Messages[1].type = "system" /\ Messages[2].type = "system"
    /\ Messages[3].type = "hedera"
    /\ state.hcs_tx = {"hcs1"} /\ state.wager_tx = {"wager1"}

----------------------------------------------------------------------------
\* the winner, confidence score and wager amount of a record
Verdict(r) == <<r.winner, r.confidence_score, r.wager_amount>>

\* C31: after a referee_complete event the winner, confidence score and wager
\* amount of the session equal those of the event and those of the referee
\* message the event wrote (the message it replaced or appended); an event of
\* any other kind leaves the three fields unchanged.
C31_SummaryFollowsReferee ==
    [][AppliedStep =>
        IF last'.ev.type = "referee_complete"
        THEN /\ Verdict(state') = Verdict(last'.ev)
             /\ \E i \in DOMAIN state'.messages :
                    /\ state'.messages[i].type = "referee"
                    /\ Verdict(state'.messages[i]) = Verdict(state')
                    /\ i = Len(state'.messages) \/ Len(state'.messages) = Len(state.messages)
                    /\ \A j \in DOMAIN state.messages \ {i} :
                           state'.messages[j] = state.messages[j]
        ELSE Verdict(state') = Verdict(state)]_vars

\* referee_complete(winner Bull) then a referee token: the verdict of the
\* session is still the one of the event and of the message it wrote
C31_Witness ==
    /\ last.op = "frame" /\ last.ev.type = "referee_token"
    /\ Len(Messages) = 2
    /\ Messages[1].type = "referee" /\ Verdict(Messages[1]) = <<{"Bull"}, {70}, {5}>>
    /\ Verdict(state) = <<{"Bull"}, {70}, {5}>>

----------------------------------------------------------------------------
\* C32: after a token event the current speaker is the speaker of the token;
\* after a complete event of any speaker and after a done event no speaker
\* is current.
C32_CurrentSpeaker ==
    [][AppliedStep =>
        /\ IsToken(last'.ev) => currentAgent' = SpeakerOf(last'.ev.type)
        /\ IsComplete(last'.ev) \/ last'.ev.type = "done" => currentAgent' = "null"]_vars

\* bull_token a, bear_token b, done: bear was current until done cleared it
C32_Witness ==
    /\ last.op = "frame" /\ last.ev.type = "done"
    /\ currentAgent = "null"
    /\ Len(Messages) = 2
    /\ Messages[1].type = "bull" /\ Messages[2].type = "bear"
    /\ Open(Messages[1]) /\ Open(Messages[2])

----------------------------------------------------------------------------
\* C33 (as claimed): while the stream of a call is open, the status leaves
\* debating only with a step of that stream (a frame applied, the stream
\* closed, the read failed) or with a call of startDebate or reset: a stream
\* that delivers nothing leaves the session in debating until its transport
\* ends or fails.
C33_StalledStaysDebating ==
    [][\A g \in Gens :
          (loops[g] = "read" /\ state.status = "debating" /\ state'.status # "debating")
             => \/ last'.op \in {"start", "reset"}
                \/ last'.gen = g /\ last'.op \in {"frame", "readDone", "readFail"}]_vars

----------------------------------------------------------------------------
\* the calls whose transport is live: requested or opened, and not aborted
Live == {g \in Gens : loops[g] \in {"fetch", "read"}}

\* the calls whose read loop can still apply an event: the stream is open, or
\* it was aborted after a chunk had been read and has not finished that chunk
Applying == {g \in Gens : loops[g] \in {"read", "drain", "chunk"}}

\* C34: at most one transport is live at any time, and at most one read loop
\* can apply events; every call of startDebate and every call of reset
\* aborts the transports that were live before it.
C34_OneLiveTransport ==
    /\ [](Cardinality(Live) <= 1 /\ Cardinality(Applying) <= 1)
    /\ [][last'.op \in {"start", "reset"} /\ last' # last
            => \A g \in Live : loops'[g] \in {"fetchDrain", "drain", "rejecting"}]_vars

\* the second call aborted the open stream of the first and is waiting for
\* its own response
C34_Witness ==
    /\ last.op = "start" /\ last.gen = 2
    /\ loops[1] = "drain" /\ loops[2] = "fetch"
    /\ abortControllerRef = 2

----------------------------------------------------------------------------
\* C35: neither an error event nor a done event stops the read loop: the
\* loop that applied it is still reading, and the frame that follows it in the
\* stream is applied as every frame is (a token is appended to its speaker's
\* buffer, a complete event of bear raises the round counter, an event that
\* is recorded is appended to the messages); a read loop ends only with the
\* closing of the stream, a transport failure or an abort.
C35_LoopSurvivesErrorAndDone ==
    /\ [](last.op = "frame" /\ last.ev.type \in {"error", "done"}
            => loops[last.gen] = "read")
    /\ [][(/\ last.op = "frame" /\ last.ev.type \in {"error", "done"}
            /\ last'.op = "frame" /\ last'.gen = last.gen /\ nFrames' = nFrames + 1)
           => /\ IsToken(last'.ev)
                 => BufferOf(streamingRef', SpeakerOf(last'.ev.type))
                      = BufferOf(streamingRef, SpeakerOf(last'.ev.type))
                          \o OrStr(last'.ev.token, "")
              /\ last'.ev.type = "bear_complete"
                 => streamingRef'.currentRound = streamingRef.currentRound + 1
              /\ last'.ev.type \in {"error", "system", "hedera"}
                 => state'.messages = Append(state.messages, last'.ev)
              /\ IsToken(last'.ev)
                 => \E i \in With(state'.messages, StepKey) :
                       state'.messages[i].content
                          = {BufferOf(streamingRef', SpeakerOf(last'.ev.type))}
              /\ IsComplete(last'.ev)
                 => \E i \in With(state'.messages, StepKey) :
                       Finality(state'.messages[i]) = EventFinality(last'.ev)]_vars
    /\ [][\A g \in Gens :
             loops[g] = "read" /\ loops'[g] # "read"
               => \/ last'.op \in {"readDone", "readFail"} /\ last'.gen = g
                  \/ last'.op \in {"start", "reset"}]_vars

\* error, then done, then a bull token in one stream: the token opened a bull
\* message after the error message and the loop is still reading
C35_Witness ==
    /\ last.op = "frame" /\ last.ev.type = "bull_token" /\ nFrames = 3
    /\ loops[1] = "read" /\ loops[2] = "none"
    /\ Len(Messages) = 2
    /\ Messages[1].type = "error" /\ Messages[2].type = "bull"
    /\ Messages[2].content = {"a"}
    /\ state.status = "completed"

----------------------------------------------------------------------------
\* C36: a token or complete event of a speaker changes neither the buffer of
\* another speaker nor a message of another type: those messages keep their
\* positions and their fields, and a message the event appends is of the
\* event's speaker.
C36_SpeakerIsolation ==
    [][(AppliedStep /\ (IsToken(last'.ev) \/ IsComplete(last'.ev)))
       => LET sp == SpeakerOf(last'.ev.type)
          IN  /\ \A other \in Speakers \ {sp} :
                     BufferOf(streamingRef', other) = BufferOf(streamingRef, other)
              /\ Len(state'.messages) >= Len(state.messages)
              /\ \A i \in DOMAIN state'.messages :
                     IF i \in DOMAIN state.messages /\ state.messages[i].type # sp
                     THEN state'.messages[i] = state.messages[i]
                     ELSE state'.messages[i].type = sp]_vars

\* bull_token a, bear_token b, bull_token a interleaved: each message holds
\* the tokens of its own speaker
C36_Witness ==
    /\ last.op = "frame" /\ last.ev.type = "bull_token" /\ nFrames = 3
    /\ Len(Messages) = 2
    /\ Messages[1].type = "bull" /\ Messages[1].content = {"aa"}
    /\ Messages[2].type = "bear" /\ Messages[2].content = {"b"}
    /\ BufferOf(streamingRef, "bull") = "aa" /\ BufferOf(streamingRef, "bear") = "b"

----------------------------------------------------------------------------
\* C37: when a read loop ends because its stream was closed or its transport
\* failed, and when reset is called, no speaker is current afterwards,
\* whatever token or status event was applied last and whether or not a
\* message is still open.
C37_EndClearsSpeaker ==
    [][last'.op \in {"readDone", "readFail", "fetchFail", "reset",
                     "staleReadDone", "staleReadFail", "staleFetchFail"}
         => currentAgent' = "null"]_vars

\* the transport failed right after a bull token: the bull message is still
\* open, the error message follows it, and no speaker is current
C37_Witness ==
    /\ last.op = "readFail"
    /\ Len(Messages) = 2
    /\ Messages[1].type = "bull" /\ Open(Messages[1])
    /\ Messages[2].type = "error"
    /\ BufferOf(streamingRef, "bull") # ""
    /\ currentAgent = "null"

----------------------------------------------------------------------------
\* the verdict and the two ledger transaction references of the session
Summary(st) == <<st.winner, st.confidence_score, st.wager_amount, st.hcs_tx, st.wager_tx>>

NoSummary == <<{}, {}, {}, {}, {}>>

\* C38: right after startDebate and after reset the winner, the confidence
\* score, the wager amount and the two transaction references are absent,
\* and from then on they change only when a referee_complete or hedera event
\* of the session that is then current is applied.
C38_NoSummaryLeak ==
    [][/\ last'.op \in {"start", "reset"} => Summary(state') = NoSummary
       /\ last'.op \notin {"start", "reset"} /\ Summary(state') # Summary(state)
            => /\ last'.op = "frame" /\ last'.gen = abortControllerRef
               /\ last'.ev.type \in {"referee_complete", "hedera"}]_vars

----------------------------------------------------------------------------
\* C39: a frame that parses to an event of a type the dispatch has no branch
\* for, and a status event whose status is none of bull_analyzing,
\* bear_analyzing and referee_evaluating, change neither the state (messages,
\* status and the rest), nor the buffers and the round counter, nor the
\* current speaker.
C39_UnhandledEventIgnored ==
    [][(/\ AppliedStep
        /\ \/ last'.ev.type \notin HandledTypes
           \/ /\ last'.ev.type = "status"
              /\ last'.ev.status \notin {{"bull_analyzing"}, {"bear_analyzing"},
                                          {"referee_evaluating"}})
       => /\ state' = state
          /\ streamingRef' = streamingRef
          /\ currentAgent' = currentAgent]_vars

\* bull_token a, a status that names no speaker, then an event of an unknown
\* type: bull is still current and its open message is all there is
C39_Witness ==
    /\ last.op = "frame" /\ last.ev.type = "ping" /\ nFrames = 3
    /\ loops[2] = "none"
    /\ currentAgent = "bull"
    /\ Len(Messages) = 1 /\ Messages[1].type = "bull" /\ Messages[1].content = {"a"}
    /\ state.status = "debating"

====
